---- MODULE Spec2Model ----
(***************************************************************************)
(* A model of scripts/models.py: the in-context-learning sequence models   *)
(* (TransformerModel, MambaModel) and their looped variants                *)
(* (TransformerModelLooped, MambaModelLooped).                             *)
(*                                                                         *)
(* A tensor is a record [shape, data]: its shape and its contiguous        *)
(* row-major storage, which is how torch lays out the tensors this code    *)
(* creates; cat, stack, view and slicing are index computations on it.     *)
(* The backbone and the linear layers are library code: they are           *)
(* deterministic stand-ins with fixed weights, and every call of the       *)
(* backbone is recorded in the variable trace.                             *)
(***************************************************************************)
EXTENDS Integers, Sequences, FiniteSets, TLC

VARIABLES
    conf,             \* the constructor's arguments, as stored on the instance
    read_out,         \* self._read_out: "Linear1", "Linear2" or "unset"
    print_flag,       \* self.print_flag
    tokens_to_trunc,  \* self.tokens_to_trunc
    pc,               \* "ready", "loop", "returned", "raised"
    calls,            \* number of calls begun on the instance
    args,             \* the arguments of the call in flight (or the last one)
    embeds,           \* forward's local embeds
    output,           \* forward's local output (the recurrent state)
    idx,              \* forward's loop index
    pred_list,        \* forward's local pred_list
    ret,              \* the value the last call returned to its caller
    err,              \* the exception the last call raised, or "none"
    stdout,           \* what print() has emitted: <<[val, call]>>
    trace             \* the backbone calls of the call in flight

vars == <<conf, read_out, print_flag, tokens_to_trunc, pc, calls, args, embeds,
          output, idx, pred_list, ret, err, stdout, trace>>

(***************************************************************************)
(* Bounds of the model.                                                    *)
(***************************************************************************)
MaxB == 2
MaxN == 2
MaxD == 2
MaxLoops == 3
MaxLoopStart == 2
MaxCalls == 2

(***************************************************************************)
(* Program constants.                                                      *)
(***************************************************************************)
MAX_NUM_CLASS == 2
freq == 2
ind == 0

ADD == "z=f(x+z)"
MUL == "z=f(x*z)"

Min(a, b) == IF a < b THEN a ELSE b
Max(a, b) == IF a < b THEN b ELSE a

(***************************************************************************)
(* Tensors.                                                                *)
(***************************************************************************)
RECURSIVE Numel(_)
Numel(shape) == IF shape = <<>> THEN 1 ELSE Head(shape) * Numel(Tail(shape))

Tensor(shape, data) == [shape |-> shape, data |-> data]

Full(shape, v) == Tensor(shape, [k \in 1..Numel(shape) |-> v])

\* torch.zeros / torch.zeros_like
Zeros(shape) == Full(shape, 0)

\* torch.ones / torch.ones_like
Ones(shape) == Full(shape, 1)

\* The storage offset (1-based) of element [b, i, j] (0-based) of a
\* contiguous tensor of shape [B, n, d].
Offset3(shape, b, i, j) == (b * shape[2] + i) * shape[3] + j + 1

At3(t, b, i, j) == t.data[Offset3(t.shape, b, i, j)]

\* The indices [b, i, j] (0-based) of storage offset k (1-based).
Unravel3(shape, k) ==
    [b |-> (k - 1) \div (shape[2] * shape[3]),
     i |-> ((k - 1) \div shape[3]) % shape[2],
     j |-> (k - 1) % shape[3]]

\* Elementwise a + b and a * b of two tensors of one shape.
TAdd(a, b) == Tensor(a.shape, [k \in 1..Len(a.data) |-> a.data[k] + b.data[k]])
TMul(a, b) == Tensor(a.shape, [k \in 1..Len(a.data) |-> a.data[k] * b.data[k]])

\* torch.cat((a, b), axis=2) of a: [B, n, da] and b: [B, n, db].
Cat2(a, b) ==
    LET shape == <<a.shape[1], a.shape[2], a.shape[3] + b.shape[3]>>
    IN  Tensor(shape,
               [k \in 1..Numel(shape) |->
                   LET at == Unravel3(shape, k)
                   IN  IF at.j < a.shape[3]
                       THEN At3(a, at.b, at.i, at.j)
                       ELSE At3(b, at.b, at.i, at.j - a.shape[3])])

\* Variant of Stack2: the pair stacked along dim=1, a tensor [B, 2, n, d].
Stack1(a, b) ==
    LET B == a.shape[1]
        n == a.shape[2]
        d == a.shape[3]
        shape == <<B, 2, n, d>>
    IN  Tensor(shape,
               [k \in 1..Numel(shape) |->
                   LET j == (k - 1) % d
                       i == ((k - 1) \div d) % n
                       s == ((k - 1) \div (d * n)) % 2
                       bb == (k - 1) \div (2 * d * n)
                   IN  IF s = 0 THEN At3(a, bb, i, j) ELSE At3(b, bb, i, j)])

\* torch.stack((a, b), dim=2) of a, b: [B, n, d]: a tensor [B, n, 2, d].
Stack2(a, b) ==
    LET B == a.shape[1]
        n == a.shape[2]
        d == a.shape[3]
        shape == <<B, n, 2, d>>
    IN  Tensor(shape,
               [k \in 1..Numel(shape) |->
                   LET j == (k - 1) % d
                       s == ((k - 1) \div d) % 2
                       i == ((k - 1) \div (2 * d)) % n
                       bb == (k - 1) \div (2 * d * n)
                   IN  IF s = 0 THEN At3(a, bb, i, j) ELSE At3(b, bb, i, j)])

\* Tensor.view(shape): the same storage under another shape.
View(t, shape) == Tensor(shape, t.data)

(***************************************************************************)
(* _combine (TransformerModel and MambaModel hold the same code).          *)
(***************************************************************************)
CombineWide(xs_b, ys_b) ==
    LET B == xs_b.shape[1]
        n == xs_b.shape[2]
        d == xs_b.shape[3]
    IN  Cat2(View(ys_b, <<B, n, 1>>), Zeros(<<B, n, d - 1>>))

Combine(xs_b, ys_b) ==
    LET B == xs_b.shape[1]
        n == xs_b.shape[2]
        d == xs_b.shape[3]
        ys_b_wide == CombineWide(xs_b, ys_b)
        zs == Stack2(xs_b, ys_b_wide)
    IN  View(zs, <<B, freq * n, d>>)

(***************************************************************************)
(* Library layers (torch.nn.Linear, GPT2Model, Mamba): deterministic       *)
(* stand-ins with fixed weights.                                           *)
(***************************************************************************)
\* sum of data[lo..hi]
RECURSIVE SumRange(_, _, _)
SumRange(data, lo, hi) ==
    IF lo > hi THEN 0 ELSE data[lo] + SumRange(data, lo + 1, hi)

\* the fixed parameters of the two linear layers
Weight(layer, e, j) == IF layer = "read_in" THEN e + j + 2 ELSE e + j + 1
Bias(layer, e) == IF layer = "read_in" THEN e ELSE e + 1

\* nn.Linear(d_in, d_out) applied per token of x: [B, T, d_in], with the
\* weight and the bias of the layer named by layer.
Linear(x, d_out, layer) ==
    LET shape == <<x.shape[1], x.shape[2], d_out>>
        d_in == x.shape[3]
        RECURSIVE Dot(_, _, _, _)
        Dot(b, i, e, j) ==
            IF j >= d_in THEN 0
            ELSE At3(x, b, i, j) * Weight(layer, e, j) + Dot(b, i, e, j + 1)
    IN  Tensor(shape,
               [k \in 1..Numel(shape) |->
                   LET at == Unravel3(shape, k)
                   IN  Bias(layer, at.j) + Dot(at.b, at.i, at.j, 0)])


\* self._read_in = nn.Linear(n_dims, n_embd)
ReadIn(zs, n_embd) == Linear(zs, n_embd, "read_in")

\* self._read_out = nn.Linear(n_embd, 1) or nn.Linear(n_embd, MAX_NUM_CLASS)
ReadOut(kind, x) ==
    Linear(x, IF kind = "Linear1" THEN 1 ELSE MAX_NUM_CLASS,
           "read_out")

\* self._backbone: a causal sequence model, [B, T, d] -> [B, T, d]: each
\* output element depends on the tokens up to its own.
Backbone(x) ==
    Tensor(x.shape,
           [k \in 1..Numel(x.shape) |->
               LET at == Unravel3(x.shape, k)
               IN  1 + at.j + SumRange(x.data,
                                       Offset3(x.shape, at.b, 0, 0),
                                       Offset3(x.shape, at.b, at.i,
                                               x.shape[3] - 1))])

(***************************************************************************)
(* Construction.                                                           *)
(***************************************************************************)
\* __init__: which read-out layer the instance gets; a pred_type that is
\* neither "regression" nor "classification" leaves the attribute unset.
InitReadOut(pred_type) ==
    IF pred_type = "regression" THEN "Linear1"
    ELSE IF pred_type = "classification" THEN "Linear2"
    ELSE "unset"

\* __init__: the exception construction raises for a pred_type. The if/elif
\* has no else branch: no pred_type makes it raise.
InitRaises(pred_type) == "none"

(***************************************************************************)
(* Prediction extraction: prediction[:, ind::freq, 0] (regression) or      *)
(* prediction[:, ind::freq] (classification).                              *)
(***************************************************************************)
\* The number of indices of range(ind, T, freq).
StridedCount(T) == IF T <= ind THEN 0 ELSE (T - ind + freq - 1) \div freq

SliceRegression(prediction) ==
    LET B == prediction.shape[1]
        m == StridedCount(prediction.shape[2])
    IN  Tensor(<<B, m>>,
               [k \in 1..(B * m) |->
                   At3(prediction, (k - 1) \div m, ind + ((k - 1) % m) * freq, 0)])

SliceClassification(prediction) ==
    LET B == prediction.shape[1]
        m == StridedCount(prediction.shape[2])
        C == prediction.shape[3]
        shape == <<B, m, C>>
    IN  Tensor(shape,
               [k \in 1..Numel(shape) |->
                   LET at == Unravel3(shape, k)
                   IN  At3(prediction, at.b, ind + at.i * freq, at.j)])

\* The read-out and the slice of forward: [err, y].
Predict(rd, pred_type, f_output) ==
    IF rd = "unset"
    THEN [err |-> "AttributeError", y |-> <<>>]
    ELSE LET prediction == ReadOut(rd, f_output)
         IN  IF pred_type = "regression"
             THEN [err |-> "none", y |-> SliceRegression(prediction)]
             ELSE IF pred_type = "classification"
             THEN [err |-> "none", y |-> SliceClassification(prediction)]
             ELSE [err |-> "NotImplementedError", y |-> <<>>]

(***************************************************************************)
(* Rationals <<num, den>> with den > 0: the probabilities p and p_state    *)
(* and the draws of torch.rand_like.                                       *)
(***************************************************************************)
Geq(r, q) == r[1] * q[2] >= q[1] * r[2]

\* math.ceil(n * q)
CeilMul(n, q) == -((-(n * q[1])) \div q[2])

(***************************************************************************)
(* dynamic_mask(tensor, p): rand holds the draws of torch.rand_like.       *)
(***************************************************************************)
DynamicMask(tensor, p, rand) ==
    LET mask == [k \in 1..Len(tensor.data) |->
                    IF Geq(rand.data[k], p) THEN 1 ELSE 0]
    IN  TMul(tensor, Tensor(tensor.shape, mask))

(***************************************************************************)
(* TransformerModelLooped.f                                                *)
(***************************************************************************)
\* torch.where(embeds == 0, torch.ones_like(embeds), embeds)
WhereZeroOne(t) ==
    Tensor(t.shape, [k \in 1..Len(t.data) |-> IF t.data[k] = 0 THEN 1 ELSE t.data[k]])

\* The embeddings f combines with the state: the input mask and its remap.
MaskedEmbeds(c, e, rand) ==
    IF c.apply_input_mask
    THEN LET masked == DynamicMask(e, c.p, rand)
         IN  IF c.loop_func = MUL THEN WhereZeroOne(masked) ELSE masked
    ELSE e

\* Variant of TruncCount: recomputed whether or not the state is truncated.
TruncCountUnguarded(c, ttt, n) ==
    IF ~c.fixed_truncate THEN CeilMul(n, c.p_state) ELSE ttt

\* self.tokens_to_trunc as f leaves it, for a state of n token positions.
TruncCount(c, ttt, n) ==
    IF c.truncate_state /\ ~c.fixed_truncate
    THEN CeilMul(n, c.p_state)
    ELSE ttt

\* The positions slice(None, K) selects among n: Python clips K to the
\* length and counts a negative K from the end.
SliceStop(K, n) == IF K < 0 THEN Max(0, n + K) ELSE Min(K, n)

\* Variant of TruncMask: one position more, mask[:, :K + 1, :] = 0.
TruncMaskInclusive(shape, K) ==
    Tensor(shape,
           [k \in 1..Numel(shape) |->
               IF Unravel3(shape, k).i <= SliceStop(K, shape[2]) THEN 0 ELSE 1])

\* mask = torch.ones((B, n, d)); mask[:, :K, :] = 0
TruncMask(shape, K) ==
    Tensor(shape,
           [k \in 1..Numel(shape) |->
               IF Unravel3(shape, k).i < SliceStop(K, shape[2]) THEN 0 ELSE 1])

\* The state f combines with the embeddings.
TruncatedState(c, ttt, out) ==
    IF c.truncate_state
    THEN TMul(out, TruncMask(out.shape, TruncCount(c, ttt, out.shape[2])))
    ELSE out

\* The loop function: what the backbone is applied to, [err, x].
LoopFunc(loop_func, out, e) ==
    IF loop_func = ADD THEN [err |-> "none", x |-> TAdd(out, e)]
    ELSE IF loop_func = MUL THEN [err |-> "none", x |-> TMul(out, e)]
    ELSE [err |-> "NotImplementedError", x |-> <<>>]

\* f(output, embeds) on an instance whose tokens_to_trunc is ttt:
\* [err, tokens_to_trunc, embeds, state, x, f_output].
TransformerF(c, ttt, out, e, rand) ==
    LET e1 == MaskedEmbeds(c, e, rand)
        K  == TruncCount(c, ttt, out.shape[2])
        o1 == TruncatedState(c, ttt, out)
        in == LoopFunc(c.loop_func, o1, e1)
    IN  [err |-> in.err,
         tokens_to_trunc |-> K,
         embeds |-> e1,
         state |-> o1,
         x |-> in.x,
         f_output |-> IF in.err = "none" THEN Backbone(in.x) ELSE <<>>]

(***************************************************************************)
(* MambaModelLooped.f                                                      *)
(***************************************************************************)
MambaF(c, ttt, out, e) ==
    LET in == LoopFunc(c.loop_func, out, e)
    IN  [err |-> in.err,
         tokens_to_trunc |-> ttt,
         embeds |-> e,
         state |-> out,
         x |-> in.x,
         f_output |-> IF in.err = "none" THEN Backbone(in.x) ELSE <<>>]

\* self.f of a looped instance.
F(c, ttt, out, e, rand) ==
    IF c.family = "gpt2_loop"
    THEN TransformerF(c, ttt, out, e, rand)
    ELSE MambaF(c, ttt, out, e)

\* Variant of InitialState: the two initial states exchanged.
InitialStateExchanged(loop_func, e) ==
    IF loop_func \in {ADD} THEN [err |-> "none", output |-> Ones(e.shape)]
    ELSE IF loop_func \in {MUL} THEN [err |-> "none", output |-> Zeros(e.shape)]
    ELSE [err |-> "NotImplementedError", output |-> <<>>]

\* Variant of InitialState: no else branch, any other loop_func starts at ones.
InitialStateLenient(loop_func, e) ==
    IF loop_func \in {ADD} THEN [err |-> "none", output |-> Zeros(e.shape)]
    ELSE [err |-> "none", output |-> Ones(e.shape)]

\* forward's choice of the initial state: [err, output].
InitialState(loop_func, e) ==
    IF loop_func \in {ADD} THEN [err |-> "none", output |-> Zeros(e.shape)]
    ELSE IF loop_func \in {MUL} THEN [err |-> "none", output |-> Ones(e.shape)]
    ELSE [err |-> "NotImplementedError", output |-> <<>>]

(***************************************************************************)
(* Configurations and inputs.                                              *)
(***************************************************************************)
PredTypes == {"regression", "classification", "ranking"}
LoopFuncs == {ADD, MUL, "z=f(x)"}
Looped == {"gpt2_loop", "mamba_loop"}
SinglePass == {"gpt2", "mamba"}

\* The defaults of TransformerModelLooped.__init__.
DefaultP == <<15, 100>>
DefaultPState == <<3, 10>>
DefaultTokensToTrunc == 4

Conf(family, n_dims, n_embd, pred_type, loop_func, apply_input_mask, p, trunc) ==
    [family |-> family, n_dims |-> n_dims, n_embd |-> n_embd,
     pred_type |-> pred_type, loop_func |-> loop_func,
     apply_input_mask |-> apply_input_mask, p |-> p,
     truncate_state |-> trunc[1], fixed_truncate |-> trunc[2],
     p_state |-> trunc[3], tokens_to_trunc |-> trunc[4]]

\* Instances without the masking options hold the defaults in their place.
PlainConf(family, n_dims, n_embd, pred_type, loop_func) ==
    Conf(family, n_dims, n_embd, pred_type, loop_func, FALSE, DefaultP,
         <<FALSE, FALSE, DefaultPState, DefaultTokensToTrunc>>)

\* <<truncate_state, fixed_truncate, p_state, tokens_to_trunc>>
TruncOptions ==
    {<<FALSE, FALSE, DefaultPState, 3>>, <<FALSE, TRUE, DefaultPState, 3>>,
     <<TRUE, TRUE, DefaultPState, 1>>, <<TRUE, TRUE, DefaultPState, 3>>,
     <<TRUE, FALSE, <<1, 3>>, 3>>, <<TRUE, FALSE, <<1, 1>>, 1>>}

Confs ==
    {Conf("gpt2_loop", 2, 1, pt, lf, am, <<1, 2>>, tr) :
        pt \in PredTypes, lf \in LoopFuncs, am \in BOOLEAN, tr \in TruncOptions}
    \cup {PlainConf("mamba_loop", 2, 1, pt, lf) :
        pt \in PredTypes, lf \in LoopFuncs}
    \cup {PlainConf(fam, 2, 1, pt, ADD) : fam \in SinglePass, pt \in PredTypes}

\* The tensor of a shape whose storage is seed, seed + stride, ...
Pattern(shape, seed, stride) ==
    Tensor(shape, [k \in 1..Numel(shape) |-> seed + (k - 1) * stride])

\* The batches forward is called with: <<B, n>> and the features and labels.
ForwardShapes == {<<1, 1>>, <<1, 2>>, <<2, 1>>}

ForwardInputs(d) ==
    {[xs |-> Pattern(<<s[1], s[2], d>>, 0, 1), ys |-> Pattern(s, 7, 1)] :
        s \in ForwardShapes}

\* The draws of torch.rand_like lie in [0, 1).
RandVals == {<<0, 1>>, <<99, 100>>}

RandTensors(shape) ==
    {Tensor(shape, f) : f \in [1..Numel(shape) -> RandVals]}

\* The draws forward is explored with: all high, or alternating.
RandPatterns(shape) ==
    {Tensor(shape, [k \in 1..Numel(shape) |->
                       IF k % m = 0 THEN <<99, 100>> ELSE <<0, 1>>]) :
        m \in 1..2}

NoTensor == <<>>
NoArgs == [xs |-> NoTensor, ys |-> NoTensor, n_loop_start |-> 0, n_loops |-> 0]

(***************************************************************************)
(* The state after construction.                                           *)
(***************************************************************************)
Constructed(c) ==
    /\ conf = c
    /\ read_out = InitReadOut(c.pred_type)
    /\ print_flag = FALSE
    /\ tokens_to_trunc = c.tokens_to_trunc
    /\ pc = "ready"
    /\ calls = 0
    /\ args = NoArgs
    /\ embeds = NoTensor
    /\ output = NoTensor
    /\ idx = 0
    /\ pred_list = <<>>
    /\ ret = NoTensor
    /\ err = InitRaises(c.pred_type)
    /\ stdout = <<>>
    /\ trace = <<>>

Init == \E c \in Confs : Constructed(c)

Idle == pc \in {"ready", "returned", "raised"}

\* The frame of a call that has ended is gone.
FrameGone ==
    /\ args' = NoArgs
    /\ embeds' = NoTensor
    /\ output' = NoTensor
    /\ idx' = 0
    /\ pred_list' = <<>>
    /\ trace' = <<>>

LoopStarts == -1..MaxLoopStart
LoopCounts == 0..MaxLoops

\* Variant of InRange: range(n_loops + 1).
InRangeInclusive(i, n_loops) == i <= n_loops

\* for idx in range(n_loops): whether the loop runs iteration i.
InRange(i, n_loops) == i < n_loops

\* Variant of Warm: idx <= n_loop_start.
WarmInclusive(i, n_loop_start) == i <= n_loop_start

\* if idx < n_loop_start: the iteration runs under torch.no_grad() and
\* records no prediction.
Warm(i, n_loop_start) == i < n_loop_start

\* Variant of ShouldPrint: the flag is not consulted.
ShouldPrintAlways(flag) == TRUE

\* if not self.print_flag
ShouldPrint(flag) == ~flag

\* The record of one call of the backbone: the loop index, whether autograd
\* tracked it, the state and the draws f was given, and what f computed.
Applied(i, grad, state_in, rand, r) ==
    [idx |-> i, grad |-> grad, state_in |-> state_in, rand |-> rand,
     embeds |-> r.embeds, state |-> r.state, x |-> r.x,
     f_output |-> r.f_output]

(***************************************************************************)
(* TransformerModel.forward and MambaModel.forward: one pass.              *)
(***************************************************************************)
Forward ==
    /\ Idle
    /\ calls < MaxCalls
    /\ conf.family \in SinglePass
    /\ \E in \in ForwardInputs(conf.n_dims) :
       \E e \in {ReadIn(Combine(in.xs, in.ys), conf.n_embd)} :
       \E f_output \in {Backbone(e)} :
       \E r \in {Predict(read_out, conf.pred_type, f_output)} :
          /\ args' = [xs |-> in.xs, ys |-> in.ys, n_loop_start |-> 0,
                      n_loops |-> 0]
          /\ embeds' = e
          /\ output' = f_output
          /\ trace' = <<Applied(0, TRUE, NoTensor, NoTensor,
                                 [embeds |-> e, state |-> NoTensor, x |-> e,
                                  f_output |-> f_output])>>
          /\ err' = r.err
          /\ ret' = r.y
          /\ pc' = IF r.err = "none" THEN "returned" ELSE "raised"
    /\ calls' = calls + 1
    /\ idx' = 0
    /\ pred_list' = <<>>
    /\ UNCHANGED <<conf, read_out, print_flag, tokens_to_trunc, stdout>>

(***************************************************************************)
(* TransformerModelLooped.forward and MambaModelLooped.forward.            *)
(***************************************************************************)
\* The call up to the loop: _combine, _read_in and the initial state.
ForwardBegin ==
    /\ Idle
    /\ calls < MaxCalls
    /\ conf.family \in Looped
    /\ \E in \in ForwardInputs(conf.n_dims) :
       \E n_loop_start \in LoopStarts : \E n_loops \in LoopCounts :
       \E e \in {ReadIn(Combine(in.xs, in.ys), conf.n_embd)} :
       \E s \in {InitialState(conf.loop_func, e)} :
          IF s.err = "none"
          THEN /\ args' = [xs |-> in.xs, ys |-> in.ys,
                           n_loop_start |-> n_loop_start, n_loops |-> n_loops]
               /\ embeds' = e
               /\ output' = s.output
               /\ idx' = 0
               /\ pred_list' = <<>>
               /\ trace' = <<>>
               /\ err' = "none"
               /\ pc' = "loop"
          ELSE /\ FrameGone
               /\ err' = s.err
               /\ pc' = "raised"
    /\ calls' = calls + 1
    /\ ret' = NoTensor
    /\ UNCHANGED <<conf, read_out, print_flag, tokens_to_trunc, stdout>>

\* One iteration of for idx in range(n_loops).
LoopIteration ==
    /\ pc = "loop"
    /\ InRange(idx, args.n_loops)
    /\ \E rand \in (IF conf.family = "gpt2_loop" /\ conf.apply_input_mask
                    THEN RandPatterns(embeds.shape) ELSE {NoTensor}) :
       \E warm \in {Warm(idx, args.n_loop_start)} :
       \E r \in {F(conf, tokens_to_trunc, output, embeds, rand)} :
       \E q \in {IF warm \/ r.err # "none"
                 THEN [err |-> r.err, y |-> NoTensor]
                 ELSE Predict(read_out, conf.pred_type, r.f_output)} :
          /\ tokens_to_trunc' = r.tokens_to_trunc
          /\ IF q.err = "none"
             THEN /\ output' = r.f_output
                  /\ trace' = Append(trace,
                                      Applied(idx, ~warm, output, rand, r))
                  /\ pred_list' = IF warm THEN pred_list
                                  ELSE Append(pred_list, q.y)
                  /\ print_flag' = TRUE
                  /\ stdout' = IF ShouldPrint(print_flag)
                               THEN Append(stdout, [val |-> idx, call |-> calls])
                               ELSE stdout
                  /\ idx' = idx + 1
                  /\ err' = "none"
                  /\ pc' = "loop"
                  /\ UNCHANGED args
                  /\ UNCHANGED embeds
             ELSE /\ FrameGone
                  /\ err' = q.err
                  /\ pc' = "raised"
                  /\ UNCHANGED <<print_flag, stdout>>
    /\ UNCHANGED <<conf, read_out, calls, ret>>

\* The loop has ended: pred_list is what the call returns.
AtReturn == pc = "loop" /\ ~InRange(idx, args.n_loops)

\* return pred_list. The list goes to the caller and the frame is gone.
ForwardReturn ==
    /\ AtReturn
    /\ FrameGone
    /\ pc' = "returned"
    /\ UNCHANGED <<conf, read_out, print_flag, tokens_to_trunc, calls, ret,
                   err, stdout>>

Next == Forward \/ ForwardBegin \/ LoopIteration \/ ForwardReturn

Spec == Init /\ [][Next]_vars

(***************************************************************************)
(* _combine called on its own.                                             *)
(***************************************************************************)
XsPatterns == {<<0, 1>>, <<1, 1>>, <<1, 0>>}
YsPatterns == {<<0, 0>>, <<7, 1>>, <<50, 3>>}

InitCombine ==
    /\ \E fam \in SinglePass : Constructed(PlainConf(fam, 2, 1, "regression", ADD))
    /\ pc = "ready"

CallCombine ==
    /\ pc = "ready"
    /\ \E B \in 1..MaxB : \E n \in 0..MaxN : \E d \in 1..MaxD :
       \E sx \in XsPatterns : \E sy \in YsPatterns :
       \E xs \in {Pattern(<<B, n, d>>, sx[1], sx[2])} :
       \E ys \in {Pattern(<<B, n>>, sy[1], sy[2])} :
          /\ args' = [xs |-> xs, ys |-> ys, n_loop_start |-> 0, n_loops |-> 0]
          /\ ret' = Combine(xs, ys)
    /\ pc' = "returned"
    /\ calls' = calls + 1
    /\ UNCHANGED <<conf, read_out, print_flag, tokens_to_trunc, embeds, output,
                   idx, pred_list, err, stdout, trace>>

SpecCombine == InitCombine /\ [][CallCombine]_vars

(***************************************************************************)
(* f called on its own, on a fresh instance.                               *)
(***************************************************************************)
MaxT == 3

FMaskOptions == {<<FALSE, DefaultP>>, <<TRUE, <<0, 1>>>>, <<TRUE, <<1, 2>>>>,
                 <<TRUE, <<1, 1>>>>}

FTruncOptions ==
    {<<FALSE, FALSE, DefaultPState, DefaultTokensToTrunc>>}
    \cup {<<TRUE, TRUE, DefaultPState, k>> : k \in {-1, 0, 1, 2, 4}}
    \cup {<<TRUE, FALSE, ps, DefaultTokensToTrunc>> :
             ps \in {<<0, 1>>, <<1, 3>>, <<1, 2>>, <<1, 1>>}}

FConfs ==
    {Conf("gpt2_loop", 2, 1, "regression", lf, m[1], m[2], tr) :
        lf \in LoopFuncs, m \in FMaskOptions, tr \in FTruncOptions}
    \cup {PlainConf("mamba_loop", 2, 1, "regression", lf) : lf \in LoopFuncs}

FShapes == {<<1, T, d>> : T \in 1..MaxT, d \in 1..2}

\* The states and the embeddings f is called with.
FStates(shape) == {Pattern(shape, 1, 1), Zeros(shape), Ones(shape)}
FEmbeds(shape) == {Pattern(shape, 0, 1), Pattern(shape, 2, 0)}

InitF == \E c \in FConfs : Constructed(c)

CallF ==
    /\ pc = "ready"
    /\ conf.family \in Looped
    /\ \E shape \in FShapes :
       \E out \in FStates(shape) : \E e \in FEmbeds(shape) :
       \E rand \in (IF conf.family = "gpt2_loop" /\ conf.apply_input_mask
                    THEN RandTensors(shape) ELSE {NoTensor}) :
       \E r \in {F(conf, tokens_to_trunc, out, e, rand)} :
          /\ output' = out
          /\ embeds' = e
          /\ tokens_to_trunc' = r.tokens_to_trunc
          /\ trace' = <<Applied(0, TRUE, out, rand, r)>>
          /\ ret' = r.f_output
          /\ err' = r.err
          /\ pc' = IF r.err = "none" THEN "returned" ELSE "raised"
    /\ calls' = calls + 1
    /\ UNCHANGED <<conf, read_out, print_flag, args, idx, pred_list, stdout>>

SpecF == InitF /\ [][CallF]_vars

(***************************************************************************)
(* Instances with an unsupported loop_func: forward and f.                 *)
(***************************************************************************)
Unsupported(loop_func) == loop_func \notin {ADD, MUL}

InitLoopFunc ==
    \E c \in Confs :
        /\ c.family \in Looped
        /\ Unsupported(c.loop_func)
        /\ Constructed(c)

SpecLoopFunc == InitLoopFunc /\ [][ForwardBegin \/ CallF]_vars

(***************************************************************************)
(* Properties.                                                             *)
(***************************************************************************)
Supported(c) ==
    /\ c.pred_type \in {"regression", "classification"}
    /\ c.loop_func \in {ADD, MUL}

\* C1: when a looped forward called with n_loops >= 0 and n_loop_start >= 0
\* reaches its return, pred_list holds exactly max(0, n_loops - n_loop_start)
\* predictions.
C1_PredListLength ==
    (AtReturn /\ args.n_loops >= 0 /\ args.n_loop_start >= 0)
        => Len(pred_list) = Max(0, args.n_loops - args.n_loop_start)

C1_Witness ==
    /\ AtReturn
    /\ Supported(conf)
    /\ args.n_loops = 2
    /\ args.n_loop_start = 1
    /\ Len(pred_list) = 1

Recorded(f_output) == Predict(read_out, conf.pred_type, f_output).y

\* The token position of storage offset k of the tensor t.
TokenOf(t, k) == Unravel3(t.shape, k).i

\* The least integer c >= n * q, for a rational q >= 0.
LeastIntegerAtLeast(n, q) ==
    CHOOSE c \in 0..(n * q[1]) :
        c * q[2] >= n * q[1] /\ (c - 1) * q[2] < n * q[1]

FirstOfOne ==
    /\ pc = "loop"
    /\ conf.family = "gpt2_loop"
    /\ ~conf.apply_input_mask
    /\ conf.loop_func \in {ADD, MUL}
    /\ args.n_loop_start = 0
    /\ args.n_loops = 1
    /\ idx = 1

BackboneOfEmbeds ==
    /\ trace[1].x = embeds
    /\ pred_list = <<Recorded(Backbone(embeds))>>

\* C3 as claimed: with n_loop_start = 0, n_loops = 1 and no input mask, under
\* either loop function and every truncation setting, the backbone is applied
\* to the embeddings and the one prediction is read_out(backbone(embeddings)).
C3_AnyTruncation == FirstOfOne => BackboneOfEmbeds

\* C3 as amended: that holds under z=f(x+z) with every truncation setting and
\* under z=f(x*z) without state truncation; under z=f(x*z) with state
\* truncation the backbone's input is 0 at the truncated leading positions and
\* the embeddings elsewhere.
C3_FirstIteration ==
    FirstOfOne =>
        /\ (conf.loop_func = ADD \/ ~conf.truncate_state) => BackboneOfEmbeds
        /\ (conf.loop_func = MUL /\ conf.truncate_state) =>
              \A k \in 1..Len(embeds.data) :
                  trace[1].x.data[k] =
                      IF TokenOf(embeds, k) < Min(tokens_to_trunc, embeds.shape[2])
                      THEN 0 ELSE embeds.data[k]

C3_Witness ==
    /\ FirstOfOne
    /\ conf.loop_func = MUL
    /\ conf.truncate_state
    /\ conf.fixed_truncate
    /\ trace[1].x # embeds
    /\ pred_list # <<Recorded(Backbone(embeds))>>

\* The leading-prefix truncation of f, seen on a state without zeros.
Truncating ==
    /\ pc # "ready"
    /\ conf.family = "gpt2_loop"
    /\ conf.truncate_state
    /\ \A k \in 1..Len(output.data) : output.data[k] # 0

\* The token positions of the state that f zeroed.
Zeroed ==
    {i \in 0..(output.shape[2] - 1) :
        \A k \in 1..Len(output.data) :
            TokenOf(output, k) = i => trace[1].state.data[k] = 0}

Untouched(i) ==
    \A k \in 1..Len(output.data) :
        TokenOf(output, k) = i => trace[1].state.data[k] = output.data[k]

\* The count f truncates by: the configured one, or ceil(n_tokens * p_state).
Configured ==
    IF conf.fixed_truncate THEN conf.tokens_to_trunc
    ELSE LeastIntegerAtLeast(output.shape[2], conf.p_state)

\* C4 as claimed: f zeroes exactly the leading positions 0..K-1 of the state,
\* K = tokens_to_trunc (fixed) or ceil(n_tokens * p_state), for every sequence
\* length and every configured integer, and leaves the others unchanged.
C4_ExactCount ==
    Truncating =>
        /\ Cardinality(Zeroed) = Configured
        /\ Zeroed = 0..(Configured - 1)
        /\ \A i \in 0..(output.shape[2] - 1) : i \notin Zeroed => Untouched(i)

\* C4 as amended: f zeroes the positions the slice [:K] selects: the leading
\* min(K, n_tokens) for K >= 0, the leading max(0, n_tokens + K) for K < 0;
\* the others are unchanged.
C4_SlicedCount ==
    Truncating =>
        LET n == output.shape[2]
            K == Configured
            stop == IF K < 0 THEN Max(0, n + K) ELSE Min(K, n)
        IN  /\ Zeroed = 0..(stop - 1)
            /\ Cardinality(Zeroed) = stop
            /\ tokens_to_trunc = K
            /\ \A i \in stop..(n - 1) : Untouched(i)

C4_Witness ==
    /\ Truncating
    /\ conf.fixed_truncate
    /\ conf.tokens_to_trunc = 4
    /\ output.shape[2] = 3
    /\ Zeroed = {0, 1, 2}

\* C5 as claimed: a pred_type other than "regression" and "classification"
\* makes construction raise NotImplementedError, and every forward call on an
\* instance holding one ends in NotImplementedError.
C5_RejectsPredType ==
    conf.pred_type \notin {"regression", "classification"} =>
        /\ calls = 0 => err = "NotImplementedError"
        /\ (calls > 0 /\ pc # "loop") =>
              (pc = "raised" /\ err = "NotImplementedError")

C6_StateOf ==
    Unsupported(conf.loop_func) =>
        /\ pc \in {"ready", "raised"}
        /\ pc = "raised" => err = "NotImplementedError"
        /\ ~print_flag
        /\ stdout = <<>>
        /\ \A j \in 1..Len(trace) : trace[j].f_output = NoTensor

C6_StepOf ==
    (Unsupported(conf.loop_func) /\ trace' = <<>> /\ calls' = calls + 1)
        => (pc' = "raised" /\ UNCHANGED <<print_flag, tokens_to_trunc>>)

\* C6: on an instance with an unsupported loop_func, forward raises
\* NotImplementedError when it selects the initial state: the loop is never
\* entered, the backbone is never applied, print_flag and tokens_to_trunc stay
\* as they were; and f called on its own raises NotImplementedError too.
C6_RejectsLoopFunc == []C6_StateOf /\ [][C6_StepOf]_vars

C6_Witness ==
    /\ Unsupported(conf.loop_func)
    /\ calls = 2
    /\ pc = "raised"
    /\ err = "NotImplementedError"
    /\ trace = <<>>
    /\ tokens_to_trunc # conf.tokens_to_trunc

\* C7 as claimed (on the calls that ran an iteration): when a forward of
\* TransformerModelLooped reaches its return, tokens_to_trunc is
\* ceil(2n * p_state) if fixed_truncate is False, and the constructor's value
\* if fixed_truncate is True.
C7_AlwaysRecomputed ==
    (conf.family = "gpt2_loop" /\ AtReturn /\ idx >= 1) =>
        tokens_to_trunc =
            IF conf.fixed_truncate THEN conf.tokens_to_trunc
            ELSE LeastIntegerAtLeast(embeds.shape[2], conf.p_state)

\* C7 as amended: tokens_to_trunc is recomputed only inside f and only when
\* truncate_state is True and fixed_truncate is False: after an iteration of
\* such a forward it is ceil(2n * p_state); a forward that runs no iteration
\* leaves it as it was; with truncate_state False or fixed_truncate True no
\* forward call ever changes the constructor's value.
C7_RecomputedInF ==
    conf.family = "gpt2_loop" =>
        /\ (conf.fixed_truncate \/ ~conf.truncate_state)
              => tokens_to_trunc = conf.tokens_to_trunc
        /\ (~conf.fixed_truncate /\ conf.truncate_state /\ pc = "loop" /\ idx >= 1)
              => tokens_to_trunc =
                    LeastIntegerAtLeast(embeds.shape[2], conf.p_state)
        /\ (calls <= 1 /\ (pc = "ready" \/ (pc = "loop" /\ idx = 0)))
              => tokens_to_trunc = conf.tokens_to_trunc

C7_Witness ==
    /\ conf.family = "gpt2_loop"
    /\ AtReturn
    /\ ~conf.fixed_truncate
    /\ conf.truncate_state
    /\ calls = 2
    /\ idx = 2
    /\ embeds.shape[2] = 4
    /\ tokens_to_trunc = 2
    /\ conf.tokens_to_trunc = 3

\* What holds of the loop whatever the first recording iteration is.
LoopRuns(first) ==
    /\ Len(trace) = idx
    /\ \A j \in 1..Len(trace) :
          /\ trace[j].idx = j - 1
          /\ trace[j].state_in =
                IF j = 1 THEN InitialState(conf.loop_func, embeds).output
                ELSE trace[j - 1].f_output
          /\ trace[j].grad = (j - 1 >= args.n_loop_start)
    /\ Len(pred_list) = Cardinality({j \in 1..Len(trace) : trace[j].grad})
    /\ \A k \in 0..(Len(pred_list) - 1) :
          /\ first + k + 1 \in 1..Len(trace)
          /\ pred_list[k + 1] = Recorded(trace[first + k + 1].f_output)
    /\ pred_list # <<>> => pred_list[Len(pred_list)] = Recorded(output)

\* C8 as claimed: for any n_loop_start and n_loops, f is applied n_loops times
\* in index order, each time to the previous output; the iterations with
\* idx < n_loop_start run without gradient tracking and record nothing, the
\* others run with it and record one prediction each; and element k of the
\* returned list is the read-out after n_loop_start + k + 1 applications.
C8_AfterStartPlusK ==
    (AtReturn /\ conf.family \in Looped) =>
        (idx = args.n_loops /\ LoopRuns(args.n_loop_start))

\* C8 as amended: the same for n_loops >= 0, with element k the read-out
\* after max(0, n_loop_start) + k + 1 applications; it holds of the
\* iterations run so far at every point of the loop.
C8_AfterWarmupPlusK ==
    (pc = "loop" /\ conf.family \in Looped) =>
        /\ LoopRuns(Max(0, args.n_loop_start))
        /\ AtReturn => idx = args.n_loops

C8_Witness ==
    /\ AtReturn
    /\ conf.family = "mamba_loop"
    /\ args.n_loops = 2
    /\ args.n_loop_start = 1
    /\ Len(trace) = 2
    /\ ~trace[1].grad
    /\ trace[2].grad
    /\ pred_list = <<Recorded(trace[2].f_output)>>

\* C9 as claimed (on an instance with supported options): print emits at most
\* once, the value 0, during the first forward call, and print_flag tells
\* whether it has.
C9_InFirstCall ==
    Supported(conf) =>
        /\ Len(stdout) <= 1
        /\ \A i \in 1..Len(stdout) : stdout[i].val = 0 /\ stdout[i].call = 1
        /\ print_flag <=> stdout # <<>>

IterationCompletes == pc = "loop" /\ pc' = "loop" /\ idx' = idx + 1

C9_StepOf ==
    /\ print_flag => (print_flag' /\ stdout' = stdout)
    /\ (~print_flag /\ IterationCompletes)
          => /\ idx = 0
             /\ print_flag'
             /\ stdout' = <<[val |-> 0, call |-> calls]>>
    /\ (~print_flag /\ ~IterationCompletes)
          => (~print_flag' /\ stdout' = <<>>)

\* C9 as amended: print emits at most once in the instance's lifetime, the
\* value 0, at the end of the first loop iteration that completes, which is
\* iteration 0 of the first forward call to complete an iteration (not
\* the first forward call when that one ran no iteration); once print_flag is
\* True it stays True and nothing more is emitted.
C9_OnFirstIteration ==
    /\ (~print_flag /\ stdout = <<>>)
    /\ [][C9_StepOf]_vars
    /\ [](Len(stdout) <= 1)

C9_Witness ==
    /\ Supported(conf)
    /\ print_flag
    /\ stdout = <<[val |-> 0, call |-> 2]>>
    /\ pc = "loop"
    /\ idx = 2

\* C10 as claimed: f's masked embeddings hold, at each element the mask
\* drops, 0 under z=f(x+z) and 1 under z=f(x*z), and at each element the mask
\* keeps, the embedding.
C10_KeptUnchanged ==
    (pc = "returned" /\ conf.family = "gpt2_loop" /\ conf.apply_input_mask
        /\ conf.loop_func \in {ADD, MUL}) =>
        \A k \in 1..Len(embeds.data) :
            trace[1].embeds.data[k] =
                IF Geq(trace[1].rand.data[k], conf.p) THEN embeds.data[k]
                ELSE IF conf.loop_func = ADD THEN 0
                ELSE 1

====
